---- MODULE Spec2Model ----
(***************************************************************************)
(* A model of the validating gateway src/src/bin/redis_proxy.rs: the key   *)
(* grammar, the schema registry, request decoding, the dispatcher and the  *)
(* thread-per-connection connection manager, together with the Redis       *)
(* commands it issues.                                                     *)
(*                                                                         *)
(* Text is modelled as a sequence of lexical tokens.  A key is a sequence  *)
(* of key tokens ("cs", ":", "DiskUsage", ...); the token alphabet is      *)
(* chosen so that no concatenation of tokens spells another token.  A      *)
(* byte stream is a sequence of byte tokens: the newline, white space, a   *)
(* byte that is not UTF-8, text that is no JSON, and one token per         *)
(* "name":value member of a JSON object.  A text made of member tokens     *)
(* only is the JSON object with these members.                             *)
(***************************************************************************)
EXTENDS Integers, Sequences, FiniteSets, TLC

(***************************************************************************)
(* Bounds of the model.                                                    *)
(***************************************************************************)
NumConns == 2
MaxMsgs == 2
MaxRawBytes == 4
\* how many times Redis fails in a run: unreachable, or a connection breaking
MaxFaults == 1
\* how many tokens follow the base key, and how long a key of any tokens is
MaxKeySuffix == 6
MaxShortKey == 5

\* let mut temp_buffer = [0; 1024]
TempBufferSize == 1024

Conns == 1..NumConns

Min(a, b) == IF a <= b THEN a ELSE b

(***************************************************************************)
(* Generic sequence helpers.                                               *)
(***************************************************************************)
RECURSIVE SelectIdx(_, _, _)
\* first index >= i of seq whose element is in S, or 0: Iterator::position
SelectIdx(seq, S, i) ==
    IF i > Len(seq) THEN 0
    ELSE IF seq[i] \in S THEN i
    ELSE SelectIdx(seq, S, i + 1)

Position(seq, S) == SelectIdx(seq, S, 1)

RECURSIVE SplitOn(_, _)
\* str::split(sep): the segments between the separators (at least one segment)
SplitOn(seq, sep) ==
    LET p == Position(seq, {sep}) IN
    IF p = 0 THEN <<seq>>
    ELSE <<SubSeq(seq, 1, p - 1)>> \o SplitOn(SubSeq(seq, p + 1, Len(seq)), sep)

RECURSIVE JoinWith(_, _)
\* [..].join(sep)
JoinWith(segs, sep) ==
    IF Len(segs) = 0 THEN <<>>
    ELSE IF Len(segs) = 1 THEN segs[1]
    ELSE segs[1] \o <<sep>> \o JoinWith(Tail(segs), sep)

RECURSIVE Flatten(_)
Flatten(seqs) == IF seqs = <<>> THEN <<>> ELSE Head(seqs) \o Flatten(Tail(seqs))

(***************************************************************************)
(* Static configuration (lazy_static!, lines 33-59).                       *)
(***************************************************************************)
VALID_PRODUCERS == <<"DiskUsage", "ModemWatcher", "Psmon", "SerialPort">>
VALID_OBJECTS == <<"object1", "object2">>

Range(f) == {f[i] : i \in DOMAIN f}

\* Key tokens made of word characters only (\w); every other key token
\* (":", "-", " ") holds a character outside \w.
WordTokens ==
    {"cs", "sda1", "read", "UnknownProducer", "object3", "x_1"}
        \cup Range(VALID_PRODUCERS) \cup Range(VALID_OBJECTS)

KeyTokens == WordTokens \cup {":", "-", " "}

IsWordSeg(seg) == seg # <<>> /\ \A i \in 1..Len(seg) : seg[i] \in WordTokens

(***************************************************************************)
(* KEY_PATTERN, generate_key_pattern, is_valid_key (lines 62-75):          *)
(*   ^cs:(P1|..):(O1|..)(?::([\w\d]+))?(?::(\w+))?$                        *)
(* Over key tokens: the key splits on ":" into 3 to 5 segments, "cs", one  *)
(* producer, one object, then up to two non-empty runs of word tokens.     *)
(***************************************************************************)
\* the pattern without its end anchor
MutIsValidKeyUnanchored(key) ==
    LET segs == SplitOn(key, ":") IN
    /\ Len(segs) >= 3
    /\ segs[1] = <<"cs">>
    /\ Len(segs[2]) = 1 /\ segs[2][1] \in Range(VALID_PRODUCERS)
    /\ Len(segs[3]) >= 1 /\ segs[3][1] \in Range(VALID_OBJECTS)

is_valid_key(key) ==
    LET segs == SplitOn(key, ":") IN
    /\ Len(segs) \in 3..5
    /\ segs[1] = <<"cs">>
    /\ Len(segs[2]) = 1 /\ segs[2][1] \in Range(VALID_PRODUCERS)
    /\ Len(segs[3]) = 1 /\ segs[3][1] \in Range(VALID_OBJECTS)
    /\ \A i \in 4..Len(segs) : IsWordSeg(segs[i])

\* key.splitn(4, ':').take(3).collect().join(":")   (line 79)
base_key(key) ==
    LET segs == SplitOn(key, ":") IN
    JoinWith(SubSeq(segs, 1, Min(3, Len(segs))), ":")

(***************************************************************************)
(* JSON.  A JSON text (what travels on the wire and what is stored and     *)
(* published) is [t, s, o]: t its type, s the tokens of a scalar's         *)
(* literal, o the members [n, t, s] of an object in the order written, n   *)
(* the bytes of the member's name.                                         *)
(* A serde_json::Value is [t, s, o] with o the SET of members of the       *)
(* object's map, one per name.                                             *)
(***************************************************************************)
JText(t, s) == [t |-> t, s |-> s, o |-> <<>>]
JNullText == JText("null", <<>>)
NoText == JText("none", <<>>)
JStr(s) == JText("str", s)
JObj(ms) == [t |-> "obj", s |-> <<>>, o |-> ms]
Mem(n, t, lit) == [n |-> n, t |-> t, s |-> lit]

\* Option::None and Value::Null
NoneValue == [t |-> "none", s |-> <<>>, o |-> {}]
NullValue == [t |-> "null", s |-> <<>>, o |-> {}]

\* A member name is the sequence of the bytes of its UTF-8 text: the names
\* of the Request's fields (lines 17-22), of the schemas' properties (lines
\* 37-58), and names that are in neither.
Name_action == <<97, 99, 116, 105, 111, 110>>
Name_key == <<107, 101, 121>>
Name_value == <<118, 97, 108, 117, 101>>
Name_extra == <<101, 120, 116, 114, 97>>
Name_disk == <<100, 105, 115, 107>>
Name_usage == <<117, 115, 97, 103, 101>>
Name_version == <<118, 101, 114, 115, 105, 111, 110>>
Name_signal_strength == <<115, 105, 103, 110, 97, 108, 95, 115, 116, 114, 101, 110, 103, 116, 104>>
Name_status == <<115, 116, 97, 116, 117, 115>>
Name_zzz == <<122, 122, 122>>
Name_aaa == <<97, 97, 97>>
Name_Version == <<86, 101, 114, 115, 105, 111, 110>>

RECURSIVE NameLess(_, _)
\* a < b as String keys of a BTreeMap: the order of their bytes, a prefix
\* before its extensions
NameLess(a, b) ==
    IF a = <<>> THEN b # <<>>
    ELSE IF b = <<>> THEN FALSE
    ELSE IF Head(a) = Head(b) THEN NameLess(Tail(a), Tail(b))
    ELSE Head(a) < Head(b)

\* Number literals that are no JSON: a leading zero.  serde_json::from_str
\* fails on them ("invalid number").
LeadingZeroNumbers == {<<"042e0">>, <<"042">>}

\* whether serde_json parses the JSON text: its numbers, and those of its
\* members, are JSON numbers
WellFormed(w) ==
    /\ w.t \in {"int", "float"} => w.s \notin LeadingZeroNumbers
    /\ \A i \in 1..Len(w.o) :
          w.o[i].t \in {"int", "float"} => w.o[i].s \notin LeadingZeroNumbers

\* A number literal as serde_json prints the number it parsed.
CanonNumber(lit) ==
    CASE lit = <<"1.50">> -> <<"1.5">>
      [] lit = <<"42e0">> -> <<"42.0">>
      [] OTHER -> lit

\* Float literals whose fractional part is zero.
IntegralFloats == {<<"1.0">>, <<"42.0">>}

CanonScalar(t, lit) == IF t \in {"int", "float"} THEN CanonNumber(lit) ELSE lit

\* serde_json parsing a JSON text into a Value: an object's members go into
\* a map, a later member replacing an earlier one of the same name.
from_json(w) ==
    IF w.t = "obj"
    THEN LET last(n) == CHOOSE i \in 1..Len(w.o) :
                 /\ w.o[i].n = n
                 /\ \A j \in (i + 1)..Len(w.o) : w.o[j].n # n
             names == {w.o[i].n : i \in 1..Len(w.o)}
         IN [t |-> "obj", s |-> <<>>,
             o |-> {Mem(n, w.o[last(n)].t, CanonScalar(w.o[last(n)].t, w.o[last(n)].s))
                        : n \in names}]
    ELSE [t |-> w.t, s |-> CanonScalar(w.t, w.s), o |-> {}]

RECURSIVE SortedMembers(_)
\* the members of the map in the order of their names, as the BTreeMap
\* iterates them
SortedMembers(ms) ==
    IF ms = {} THEN <<>>
    ELSE LET first == CHOOSE m \in ms : \A x \in ms : ~NameLess(x.n, m.n)
         IN <<first>> \o SortedMembers(ms \ {first})

\* Value::to_string(): the compact text, an object's members in map order.
to_string(v) ==
    IF v.t = "obj" THEN JObj(SortedMembers(v.o)) ELSE JText(v.t, v.s)

(***************************************************************************)
(* SCHEMAS (lines 37-58) and validate_json_schema (lines 78-89).           *)
(***************************************************************************)
Prop(n, t) == [n |-> n, t |-> t]

DiskBase == <<"cs", ":", "DiskUsage", ":", "object1">>
ModemBase == <<"cs", ":", "ModemWatcher", ":", "object2">>

SCHEMAS ==
    (DiskBase :> [props |-> <<Prop(Name_disk, "string"), Prop(Name_usage, "number"),
                              Prop(Name_version, "number")>>,
                  required |-> <<Name_version, Name_disk, Name_usage>>])
    @@ (ModemBase :> [props |-> <<Prop(Name_signal_strength, "integer"),
                                  Prop(Name_status, "string"),
                                  Prop(Name_version, "number")>>,
                      required |-> <<Name_version, Name_status, Name_signal_strength>>])

\* the "type" keyword of JSON Schema on a member or a value
HasType(t, s, type) ==
    CASE type = "number" -> t \in {"int", "float"}
      [] type = "integer" -> t = "int" \/ (t = "float" /\ s \in IntegralFloats)
      [] type = "string" -> t = "str"
      [] type = "object" -> t = "obj"
      [] OTHER -> FALSE

Violation(kind, field) == [kind |-> kind, field |-> field]

RECURSIVE PropErrors(_, _, _)
PropErrors(props, v, i) ==
    IF i > Len(props) THEN <<>>
    ELSE LET here == {m \in v.o : m.n = props[i].n}
             bad == \E m \in here : ~HasType(m.t, m.s, props[i].t)
         IN (IF bad THEN <<Violation("type", props[i].n)>> ELSE <<>>)
                \o PropErrors(props, v, i + 1)

RECURSIVE RequiredErrors(_, _, _)
RequiredErrors(req, v, i) ==
    IF i > Len(req) THEN <<>>
    ELSE (IF \E m \in v.o : m.n = req[i] THEN <<>>
          ELSE <<Violation("required", req[i])>>)
             \o RequiredErrors(req, v, i + 1)

\* JSONSchema::validate: every violation, in keyword order
\* (properties, required, type); properties and required bind objects only.
SchemaErrors(schema, v) ==
    IF v.t = "obj"
    THEN PropErrors(schema.props, v, 1) \o RequiredErrors(schema.required, v, 1)
    ELSE <<Violation("type", <<>>)>>

\* the schema looked up by the whole key
MutValidateFullKey(key, value) ==
    IF key \in DOMAIN SCHEMAS THEN SchemaErrors(SCHEMAS[key], value) ELSE <<>>

\* Ok(()) is <<>>; Err(msg) is the violations joined into msg.
validate_json_schema(key, value) ==
    LET base == base_key(key) IN
    IF base \in DOMAIN SCHEMAS THEN SchemaErrors(SCHEMAS[base], value) ELSE <<>>

(***************************************************************************)
(* Bytes on the connection.  A byte token is [k, n, v]: k its kind, and    *)
(* for k = "member" the member's name n and the JSON text v of its value.  *)
(***************************************************************************)
Byte(k, n, v) == [k |-> k, n |-> n, v |-> v]
NL == Byte("nl", <<>>, NoText)        \* b'\n'
WS == Byte("ws", <<>>, NoText)        \* a space
CR == Byte("cr", <<>>, NoText)        \* b'\r'
BAD == Byte("bad", <<>>, NoText)      \* a byte that is not valid UTF-8 (0xFF)
JUNK == Byte("junk", <<>>, NoText)    \* text that is no JSON
Member(n, v) == Byte("member", n, v)

\* String::from_utf8(line).is_ok()   (line 169)
IsUtf8(line) == \A i \in 1..Len(line) : line[i].k # "bad"

WhiteSpace == {"nl", "ws", "cr"}

RECURSIVE TrimStart(_)
TrimStart(t) ==
    IF t # <<>> /\ Head(t).k \in WhiteSpace THEN TrimStart(Tail(t)) ELSE t

RECURSIVE TrimEnd(_)
TrimEnd(t) ==
    IF t # <<>> /\ t[Len(t)].k \in WhiteSpace
    THEN TrimEnd(SubSeq(t, 1, Len(t) - 1)) ELSE t

\* str::trim   (line 170)
Trim(t) == TrimEnd(TrimStart(t))

(***************************************************************************)
(* Request (lines 18-23) and its decoding, serde_json::from_str (line 93). *)
(***************************************************************************)
Request(a, k, v) == [action |-> a, key |-> k, value |-> v]
NoRequest == Request(<<>>, <<>>, NoneValue)

MembersNamed(data, n) ==
    {i \in 1..Len(data) : data[i].k = "member" /\ data[i].n = n}

TheMember(data, n) == data[CHOOSE i \in MembersNamed(data, n) : TRUE]

\* Ok(req) or Err: the text is one JSON object; action and key are present
\* once and are strings; value is present at most once; other members are
\* skipped.  A value of null is Option::None.
DecodeOk(data) ==
    /\ Len(data) >= 1
    /\ \A i \in 1..Len(data) : data[i].k = "member" /\ WellFormed(data[i].v)
    /\ Cardinality(MembersNamed(data, Name_action)) = 1
    /\ TheMember(data, Name_action).v.t = "str"
    /\ Cardinality(MembersNamed(data, Name_key)) = 1
    /\ TheMember(data, Name_key).v.t = "str"
    /\ Cardinality(MembersNamed(data, Name_value)) <= 1

Decode(data) ==
    Request(TheMember(data, Name_action).v.s,
            TheMember(data, Name_key).v.s,
            IF MembersNamed(data, Name_value) = {}
                   \/ TheMember(data, Name_value).v.t = "null"
            THEN NoneValue
            ELSE from_json(TheMember(data, Name_value).v))

(***************************************************************************)
(* Response (lines 26-30).  A message is a fixed text or the list of       *)
(* schema violations joined with ", ".                                     *)
(***************************************************************************)
Msg(text, errs) == [text |-> text, errs |-> errs]
Response(status, message) == [status |-> status, message |-> message]
ErrorResponse(text) == Response("error", Msg(text, <<>>))
SchemaErrorResponse(errs) == Response("error", Msg("", errs))
OkResponse == Response("ok", Msg("Action completed successfully", <<>>))
NoResponse == Response("", Msg("", <<>>))

(***************************************************************************)
(* The backend store: Redis strings, sets and pub/sub channels.  A Redis   *)
(* string is [p, j]: a literal prefix p followed by a JSON text j.         *)
(***************************************************************************)
BStr(p, j) == [p |-> p, j |-> j]
NoBStr == BStr("", NoText)

Absent == [t |-> "none", v |-> NoBStr, m |-> {}]
StringVal(v) == [t |-> "string", v |-> v, m |-> {}]
SetVal(m) == IF m = {} THEN Absent ELSE [t |-> "set", v |-> NoBStr, m |-> m]

Cmd(op, key, arg) == [op |-> op, key |-> key, arg |-> arg]
NoCmd == Cmd("", <<>>, NoBStr)

WrongType == "WRONGTYPE Operation against a key holding the wrong kind of value"
IoError == "Connection refused (os error 111)"

\* whether Redis rejects the command, given the value at its key
Rejects(cmd, val) == cmd.op \in {"SADD", "SREM"} /\ val.t = "string"

\* the value at the command's key after the command
Applied(cmd, val) ==
    CASE cmd.op = "SET" -> StringVal(cmd.arg)
      [] cmd.op = "DEL" -> Absent
      [] cmd.op = "SADD" -> SetVal(val.m \cup {cmd.arg})
      [] cmd.op = "SREM" -> SetVal(val.m \ {cmd.arg})
      [] OTHER -> val

(***************************************************************************)
(* handle_request (lines 92-154), up to its first backend call.            *)
(***************************************************************************)
Actions == {<<"set">>, <<"del">>, <<"sadd">>, <<"srem">>}

\* the early return of handle_request, or NoResponse when the request goes
\* on to the backend
MutEarlyNoKeyCheck(data) ==
    IF ~DecodeOk(data) THEN ErrorResponse("Invalid request format")
    ELSE LET r == Decode(data)
             errs == IF r.value.t = "none" THEN <<>>
                     ELSE validate_json_schema(r.key, r.value)
         IN IF errs # <<>> THEN SchemaErrorResponse(errs)
            ELSE IF r.action \notin Actions THEN ErrorResponse("Invalid action")
            ELSE NoResponse

\* an absent value validated as null
MutEarlyValidateNull(data) ==
    IF ~DecodeOk(data) THEN ErrorResponse("Invalid request format")
    ELSE LET r == Decode(data) IN
         IF ~is_valid_key(r.key) THEN ErrorResponse("Invalid key format")
         ELSE LET errs == validate_json_schema(r.key,
                              IF r.value.t = "none" THEN NullValue ELSE r.value)
              IN IF errs # <<>> THEN SchemaErrorResponse(errs)
                 ELSE IF r.action \notin Actions THEN ErrorResponse("Invalid action")
                 ELSE NoResponse

\* the action looked at before the value
MutEarlyActionFirst(data) ==
    IF ~DecodeOk(data) THEN ErrorResponse("Invalid request format")
    ELSE LET r == Decode(data) IN
         IF ~is_valid_key(r.key) THEN ErrorResponse("Invalid key format")
         ELSE IF r.action \notin Actions THEN ErrorResponse("Invalid action")
         ELSE LET errs == IF r.value.t = "none" THEN <<>>
                          ELSE validate_json_schema(r.key, r.value)
              IN IF errs # <<>> THEN SchemaErrorResponse(errs) ELSE NoResponse

EarlyResponse(data) ==
    IF ~DecodeOk(data) THEN ErrorResponse("Invalid request format")
    ELSE LET r == Decode(data) IN
         IF ~is_valid_key(r.key) THEN ErrorResponse("Invalid key format")
         ELSE LET errs == IF r.value.t = "none" THEN <<>>
                          ELSE validate_json_schema(r.key, r.value)
              IN IF errs # <<>> THEN SchemaErrorResponse(errs)
                 ELSE IF r.action \notin Actions THEN ErrorResponse("Invalid action")
                 ELSE NoResponse

\* let val = req.value.unwrap_or(Value::Null).to_string()
ValText(r) == to_string(IF r.value.t = "none" THEN NullValue ELSE r.value)

\* the mutating command of the match arm (lines 113-129)
MutationCmd(r) ==
    CASE r.action = <<"set">> -> Cmd("SET", r.key, BStr("", ValText(r)))
      [] r.action = <<"del">> -> Cmd("DEL", r.key, NoBStr)
      [] r.action = <<"sadd">> -> Cmd("SADD", r.key, BStr("", ValText(r)))
      [] r.action = <<"srem">> -> Cmd("SREM", r.key, BStr("", ValText(r)))
      [] OTHER -> NoCmd

\* the publish of the match arm
MutPublishCmdSetPrefix(r) ==
    IF r.action = <<"del">> THEN Cmd("PUBLISH", r.key, BStr("del", NoText))
    ELSE Cmd("PUBLISH", r.key, BStr("set: ", ValText(r)))

PublishCmd(r) ==
    CASE r.action = <<"set">> -> Cmd("PUBLISH", r.key, BStr("set: ", ValText(r)))
      [] r.action = <<"del">> -> Cmd("PUBLISH", r.key, BStr("del", NoText))
      [] r.action = <<"sadd">> -> Cmd("PUBLISH", r.key, BStr("sadd: ", ValText(r)))
      [] r.action = <<"srem">> -> Cmd("PUBLISH", r.key, BStr("srem: ", ValText(r)))
      [] OTHER -> NoCmd

(***************************************************************************)
(* Inputs: the keys, values and request lines the clients send.            *)
(***************************************************************************)
KDisk == DiskBase
KDiskId == DiskBase \o <<":", "sda1">>
KModem == ModemBase
KPsmon == <<"cs", ":", "Psmon", ":", "object1">>
KUnknown == <<"cs", ":", "UnknownProducer", ":", "object1">>

AllKeys == {KDisk, KDiskId, KModem, KPsmon, KUnknown}

VDisk ==
    JObj(<<Mem(Name_version, "float", <<"1.0">>), Mem(Name_disk, "str", <<"/dev/sda1">>),
           Mem(Name_usage, "int", <<"42">>)>>)
\* the value of the spec's Scenario 1: no "version"
VScenario1 ==
    JObj(<<Mem(Name_disk, "str", <<"/dev/sda1">>), Mem(Name_usage, "int", <<"42">>)>>)
VDiskWrong ==
    JObj(<<Mem(Name_version, "float", <<"1.0">>), Mem(Name_disk, "str", <<"/dev/sda1">>),
           Mem(Name_usage, "str", <<"full">>)>>)
VModem ==
    JObj(<<Mem(Name_version, "float", <<"1.50">>), Mem(Name_status, "str", <<"up">>),
           Mem(Name_signal_strength, "int", <<"7">>)>>)
\* the value of the spec's Scenario 3: only "status"
VScenario3 == JObj(<<Mem(Name_status, "str", <<"up">>)>>)
VStr == JStr(<<"up">>)

ReqLine(a, k, v) ==
    <<Member(Name_action, JStr(<<a>>)), Member(Name_key, JStr(k)), Member(Name_value, v)>>
ReqLineNoValue(a, k) ==
    <<Member(Name_action, JStr(<<a>>)), Member(Name_key, JStr(k))>>

\* the request lines of the single-connection specification
ReqCatalog ==
    { ReqLine("set", KDisk, VDisk),
      ReqLine("set", KDisk, VScenario1),
      ReqLine("set", KDiskId, VDiskWrong),
      ReqLineNoValue("set", KDisk),
      ReqLine("sadd", KDisk, JNullText),
      ReqLine("set", KModem, VModem),
      ReqLine("set", KModem, VScenario3),
      ReqLine("set", KPsmon, VStr),
      ReqLine("sadd", KPsmon, VStr),
      ReqLine("srem", KPsmon, VStr),
      ReqLineNoValue("del", KDisk),
      ReqLine("del", KDisk, VStr),
      ReqLine("del", KPsmon, VStr),
      ReqLine("set", KUnknown, VDisk),
      ReqLineNoValue("frobnicate", KPsmon),
      ReqLine("frobnicate", KDisk, VStr),
      ReqLine("frobnicate", KDisk, VDisk),
      ReqLineNoValue("frobnicate", KUnknown),
      <<WS>> \o ReqLineNoValue("del", KPsmon) \o <<CR>>,
      <<Member(Name_key, JStr(KPsmon)), Member(Name_extra, VStr),
        Member(Name_action, JStr(<<"del">>))>>,
      <<Member(Name_action, JStr(<<"del">>))>>,
      <<Member(Name_action, JText("int", <<"42">>)), Member(Name_key, JStr(KPsmon))>>,
      <<Member(Name_action, JStr(<<"del">>)), Member(Name_key, JStr(KPsmon)), JUNK>>,
      <<BAD>> \o ReqLineNoValue("del", KPsmon),
      <<>> }

\* the request lines of the concurrent specification
ConcCatalog ==
    { ReqLine("set", KPsmon, VStr),
      ReqLine("sadd", KPsmon, VStr) }

\* a second key without a schema
KPsmon2 == <<"cs", ":", "Psmon", ":", "object2">>

\* the key a client sets: distinct for two clients
OwnKey(c) == IF c % 2 = 1 THEN KPsmon ELSE KPsmon2

\* the request lines of client c in the concurrent specification: a set of
\* its own key and, from the clients whose key is the second, an sadd to the
\* first key, which the other clients set
OwnCatalog(c) ==
    {ReqLine("set", OwnKey(c), VStr)}
        \cup (IF OwnKey(c) = KPsmon THEN {} ELSE {ReqLine("sadd", KPsmon, VStr)})

RECURSIVE StreamsOf(_, _)
\* the byte streams of at most n lines of the catalog, each ended by NL
StreamsOf(catalog, n) ==
    IF n = 0 THEN {<<>>}
    ELSE LET shorter == StreamsOf(catalog, n - 1) IN
         shorter \cup {s \o l \o <<NL>> : s \in shorter, l \in catalog}

RECURSIVE SeqsUpTo(_, _)
SeqsUpTo(S, n) ==
    IF n = 0 THEN {<<>>}
    ELSE LET shorter == SeqsUpTo(S, n - 1) IN
         shorter \cup {s \o <<b>> : s \in shorter, b \in S}

\* every stream of at most MaxRawBytes bytes, whole lines or not
RawStreams == SeqsUpTo({NL, JUNK, BAD, WS}, MaxRawBytes)

(***************************************************************************)
(* The state.                                                              *)
(*   mainPc      where main is: "start", then "accepting" (lines 185-204)  *)
(*   pc[c]       where connection c and its worker thread are              *)
(*   inbox[c]    bytes the client has sent that the worker has not read    *)
(*   peerClosed[c]  the client has closed its end                          *)
(*   out[c]      the responses written to the client, one per write_all    *)
(*   buffer[c]   handle_client's buffer                                    *)
(*   req[c], resp[c]  the request being dispatched, the response to write  *)
(*   session[c]  the worker's redis::Connection (0: none)                  *)
(*   nextSession, sessState, sessLog, store, channels  the Redis server:   *)
(*               its sessions, the commands each received, keys, pub/sub   *)
(*   consumed, lines, handed, answered  history: bytes read, lines drained *)
(*               from the buffer, texts passed to handle_request, and the  *)
(*               line each written response answers                        *)
(*   statics     the lazy_static values initialised so far                 *)
(*   compiles    JSONSchema::compile calls per base key                    *)
(*   faults      the failures of Redis so far: unreachable, or a           *)
(*               connection breaking                                       *)
(***************************************************************************)
VARIABLES mainPc, pc, inbox, peerClosed, out, buffer, req, resp, session,
          nextSession, sessState, sessLog, store, channels,
          consumed, lines, handed, answered, statics, compiles, faults

clientVars == <<inbox, peerClosed, out>>
workerVars == <<pc, buffer, req, resp, session>>
sessionVars == <<nextSession, sessState, faults>>
backendVars == <<sessLog, store, channels>>
histVars == <<consumed, lines, handed, answered>>
staticVars == <<statics, compiles>>
vars == <<mainPc, clientVars, workerVars, sessionVars, backendVars, histVars,
          staticVars>>

Sessions == 1..NumConns

Call(c, k, cmd, err) == [by |-> c, line |-> k, cmd |-> cmd, err |-> err]

\* the keys the clients name: the keys Redis may come to hold
KeysSent(inb) ==
    UNION {{inb[c][i].v.s : i \in {j \in 1..Len(inb[c]) :
                                      inb[c][j].k = "member" /\ inb[c][j].n = Name_key
                                          /\ inb[c][j].v.t = "str"}}
           : c \in Conns}

InitWith(inb, active) ==
    /\ mainPc = "start"
    /\ pc = [c \in Conns |-> IF c \in active THEN "pending" ELSE "off"]
    /\ inbox = inb
    /\ peerClosed = [c \in Conns |-> FALSE]
    /\ out = [c \in Conns |-> <<>>]
    /\ buffer = [c \in Conns |-> <<>>]
    /\ req = [c \in Conns |-> NoRequest]
    /\ resp = [c \in Conns |-> NoResponse]
    /\ session = [c \in Conns |-> 0]
    /\ nextSession = 1
    /\ sessState = [s \in Sessions |-> "unused"]
    /\ sessLog = [s \in Sessions |-> <<>>]
    /\ store = [k \in AllKeys \cup KeysSent(inb) |-> Absent]
    /\ channels = [k \in AllKeys \cup KeysSent(inb) |-> <<>>]
    /\ consumed = [c \in Conns |-> <<>>]
    /\ lines = [c \in Conns |-> <<>>]
    /\ handed = [c \in Conns |-> <<>>]
    /\ answered = [c \in Conns |-> <<>>]
    /\ statics = {}
    /\ compiles = [b \in DOMAIN SCHEMAS |-> 0]
    /\ faults = 0

\* the streams of client c in the concurrent specification: valid requests,
\* or one line that is not UTF-8
ConcStreams(c) == StreamsOf(OwnCatalog(c), MaxMsgs) \cup {<<BAD, NL>>}

\* every client connects and sends one of its streams
Init ==
    \E inb \in [Conns -> UNION {ConcStreams(c) : c \in Conns}] :
        /\ \A c \in Conns : inb[c] \in ConcStreams(c)
        /\ InitWith(inb, Conns)

\* the streams of the fair specifications: nothing, one request, or one
\* line that is not UTF-8
LiveStreams == StreamsOf(ConcCatalog, 1) \cup {<<BAD, NL>>}

\* every client connects and sends one of these streams
InitLive ==
    \E inb \in [Conns -> LiveStreams] : InitWith(inb, Conns)

\* streams that end in a whole request without its delimiter
PartialStreams ==
    {s \o l : s \in {<<>>, ReqLine("sadd", KPsmon, VStr) \o <<NL>>},
              l \in {ReqLine("set", KPsmon, VStr), ReqLineNoValue("del", KPsmon),
                     ReqLine("set", KDisk, VScenario1)}}

\* one client connects and sends any stream
InitRequests ==
    \E s \in StreamsOf(ReqCatalog, MaxMsgs) \cup RawStreams \cup PartialStreams :
        InitWith([c \in Conns |-> IF c = 1 THEN s ELSE <<>>], {1})

\* the keys of the key specification: every short run of key tokens, and a
\* base key followed by every run of separators, word and non-word tokens
KeyCatalog ==
    SeqsUpTo({"cs", ":", "Psmon", "object1"}, MaxShortKey)
        \cup {b \o t : b \in {KPsmon, <<"cs", ":", "SerialPort", ":", "object2">>},
                       t \in SeqsUpTo({":", "sda1", "-"}, MaxKeySuffix)}
        \cup {KUnknown, <<"cs", ":", "Psmon", ":", "object3">>,
              <<"cs", ":", "object1", ":", "Psmon">>,
              <<"x_1", ":", "Psmon", ":", "object1">>,
              KPsmon \o <<" ">>, KPsmon \o <<":", "x_1", ":", "read">>}

\* one stream with the edge cases of the key grammar, one key a line
KeyEdgeStream ==
    Flatten([i \in 1..5 |->
        ReqLineNoValue("del",
            <<(<<>>), KUnknown, KPsmon \o <<":", "sda1", ":", "read", ":", "sda1">>,
              KPsmon \o <<"-">>, KPsmon \o <<":", "sda1", ":", "read">> >>[i])
            \o <<NL>>])

\* the keys of the value specification: with and without a registered
\* schema, with and without an id and a function
ValueKeys ==
    {KDisk, KDiskId, KDisk \o <<":", "sda1", ":", "read">>,
     KModem, KModem \o <<":", "x_1">>,
     KPsmon, KPsmon \o <<":", "sda1">>,
     <<"cs", ":", "DiskUsage", ":", "object2">>}

\* what a member of an object may hold; "absent" leaves the member out
FieldTexts ==
    {NoText, JStr(<<"up">>), JText("int", <<"42">>), JText("float", <<"1.0">>),
     JText("float", <<"1.50">>), JNullText}

\* the names of the fields of the registered schemas
SchemaFields == <<Name_disk, Name_signal_strength, Name_status, Name_usage, Name_version>>

\* the object with the members of f that are not left out, in name order
ObjectOf(f) ==
    JObj(SelectSeq([i \in 1..Len(SchemaFields) |->
                       Mem(SchemaFields[i], f[SchemaFields[i]].t, f[SchemaFields[i]].s)],
                   LAMBDA m : m.t # "none"))

\* objects over the fields of one schema with or without a field of the
\* other, an object naming a member twice, and scalars
ValueCatalog ==
    {ObjectOf(f) : f \in
        {g \in [Range(SchemaFields) -> FieldTexts] :
            /\ g[Name_status] \in {NoText, JStr(<<"up">>)}
            /\ g[Name_signal_strength] = NoText}
        \cup
        {g \in [Range(SchemaFields) -> FieldTexts] :
            /\ g[Name_disk] \in {NoText, JStr(<<"up">>)}
            /\ g[Name_usage] = NoText}}
        \cup {JObj(<<Mem(Name_usage, "str", <<"full">>)>> \o VDisk.o), VStr,
              JText("int", <<"42">>), JText("float", <<"1.50">>),
              JText("bool", <<"true">>),
              JText("float", <<"42e0">>), JText("float", <<"042e0">>),
              JObj(<<Mem(Name_version, "float", <<"042e0">>)>>),
              JObj(<<Mem(Name_extra, "str", <<"up">>)>>),
              JObj(VDisk.o \o <<Mem(Name_extra, "str", <<"up">>)>>),
              JObj(<<Mem(Name_zzz, "int", <<"42">>), Mem(Name_aaa, "int", <<"42">>),
                     Mem(Name_disk, "str", <<"up">>), Mem(Name_Version, "int", <<"42">>)>>)}

\* one client connects and sends one write of a catalog value to a key, one
\* request without a value or with null, or a line that is not UTF-8
InitValues ==
    \E s \in {ReqLine("set", k, v) \o <<NL>> : k \in ValueKeys, v \in ValueCatalog}
                \cup {ReqLine(a, k, JNullText) \o <<NL>> :
                          a \in {"set", "del", "sadd", "srem"}, k \in ValueKeys}
                \cup {ReqLineNoValue(a, k) \o <<NL>> :
                          a \in {"set", "del", "sadd", "srem"}, k \in ValueKeys}
                \cup {<<BAD, NL>>} :
        InitWith([c \in Conns |-> IF c = 1 THEN s ELSE <<>>], {1})

\* one client connects and sends a request about one key, or the edge cases,
\* or a line that is not UTF-8
InitKeys ==
    \E s \in {ReqLineNoValue("del", k) \o <<NL>> : k \in KeyCatalog}
                \cup {KeyEdgeStream, <<BAD, NL>>} :
        InitWith([c \in Conns |-> IF c = 1 THEN s ELSE <<>>], {1})

(***************************************************************************)
(* main (lines 185-207).                                                   *)
(***************************************************************************)
\* bind the listener and create the Redis client (lines 186-193)
MainStart ==
    /\ mainPc = "start"
    /\ mainPc' = "accepting"
    /\ UNCHANGED <<clientVars, workerVars, sessionVars, backendVars, histVars,
                   staticVars>>

\* the states in which a worker thread has ended
Ended == {"exit_eof", "exit_readerr", "panic_session", "panic_write"}

\* the accept loop serving a connection itself before it accepts the next
MutAcceptInline(c) ==
    /\ mainPc = "accepting"
    /\ pc[c] = "pending"
    /\ \A d \in Conns \ {c} : pc[d] \in {"pending", "off"} \cup Ended
    /\ pc' = [pc EXCEPT ![c] = "start"]
    /\ UNCHANGED <<mainPc, clientVars, buffer, req, resp, session, sessionVars,
                   backendVars, histVars, staticVars>>

\* one turn of the accept loop: spawn a worker thread (lines 196-201)
Accept(c) ==
    /\ mainPc = "accepting"
    /\ pc[c] = "pending"
    /\ pc' = [pc EXCEPT ![c] = "start"]
    /\ UNCHANGED <<mainPc, clientVars, buffer, req, resp, session, sessionVars,
                   backendVars, histVars, staticVars>>

(***************************************************************************)
(* handle_client (lines 157-181).                                          *)
(***************************************************************************)
\* the worker's session: the local `conn`
MutSharedSession(c) == IF session[c] = 0 THEN 0 ELSE 1

SessionOf(c) == session[c]

\* the thread ends: its stream and its Redis connection are dropped
Released(c) ==
    IF session[c] = 0 THEN sessState
    ELSE [sessState EXCEPT ![session[c]] = "released"]

\* redis_client.get_connection().expect(..) (line 159): a new session, or
\* a panic of the worker thread when Redis cannot be reached
GetConnection(c) ==
    /\ pc[c] = "start"
    /\ \E up \in {TRUE} \cup {FALSE : i \in 1..(MaxFaults - faults)} :
        IF up
        THEN /\ session' = [session EXCEPT ![c] = nextSession]
             /\ sessState' = [sessState EXCEPT ![nextSession] = "open"]
             /\ nextSession' = nextSession + 1
             /\ pc' = [pc EXCEPT ![c] = "read"]
             /\ faults' = faults
        ELSE /\ pc' = [pc EXCEPT ![c] = "panic_session"]
             /\ faults' = faults + 1
             /\ UNCHANGED <<session, nextSession, sessState>>
    /\ UNCHANGED <<mainPc, clientVars, buffer, req, resp, backendVars, histVars,
                   staticVars>>

\* stream.read(&mut temp_buffer) returns Ok(size), size > 0 (lines 163-166)
Read(c) ==
    /\ pc[c] = "read"
    /\ inbox[c] # <<>>
    /\ \E n \in 1..Min(Len(inbox[c]), TempBufferSize) :
        /\ buffer' = [buffer EXCEPT ![c] = @ \o SubSeq(inbox[c], 1, n)]
        /\ consumed' = [consumed EXCEPT ![c] = @ \o SubSeq(inbox[c], 1, n)]
        /\ inbox' = [inbox EXCEPT ![c] = SubSeq(@, n + 1, Len(@))]
    /\ pc' = [pc EXCEPT ![c] = "frame"]
    /\ UNCHANGED <<mainPc, peerClosed, out, req, resp, session, sessionVars,
                   backendVars, lines, handed, answered, staticVars>>

\* stream.read returns Ok(0): the peer closed (line 164)
ReadEof(c) ==
    /\ pc[c] = "read"
    /\ inbox[c] = <<>>
    /\ peerClosed[c]
    /\ pc' = [pc EXCEPT ![c] = "exit_eof"]
    /\ sessState' = Released(c)
    /\ UNCHANGED <<mainPc, clientVars, buffer, req, resp, session, nextSession, faults,
                   backendVars, histVars, staticVars>>

\* stream.read returns Err (lines 175-178): the connection is reset, at
\* any read and whatever came before
ReadError(c) ==
    /\ pc[c] = "read"
    /\ pc' = [pc EXCEPT ![c] = "exit_readerr"]
    /\ sessState' = Released(c)
    /\ UNCHANGED <<mainPc, clientVars, buffer, req, resp, session, nextSession,
                   backendVars, histVars, staticVars, faults>>

\* the end of the buffer taken for a delimiter
MutNewlinePosOrEnd(buf) ==
    IF Position(buf, {NL}) = 0 THEN Len(buf) ELSE Position(buf, {NL})

\* buffer.iter().position(|&b| b == b'\n')   (line 167)
NewlinePos(buf) == Position(buf, {NL})

\* the while-let loop ends: no complete line is buffered (line 167)
FrameNoLine(c) ==
    /\ pc[c] = "frame"
    /\ NewlinePos(buffer[c]) = 0
    /\ pc' = [pc EXCEPT ![c] = "read"]
    /\ UNCHANGED <<mainPc, clientVars, buffer, req, resp, session, sessionVars,
                   backendVars, histVars, staticVars>>

\* buffer.drain(..=pos): the line taken and what stays (line 168)
MutDrainAll(buf) == [line |-> SubSeq(buf, 1, NewlinePos(buf)), rest |-> <<>>]

Drain(buf) ==
    [line |-> SubSeq(buf, 1, NewlinePos(buf)),
     rest |-> SubSeq(buf, NewlinePos(buf) + 1, Len(buf))]

\* a line that is not UTF-8 is dropped without a response (line 169)
FrameSkip(c) ==
    /\ pc[c] = "frame"
    /\ NewlinePos(buffer[c]) # 0
    /\ ~IsUtf8(Drain(buffer[c]).line)
    /\ buffer' = [buffer EXCEPT ![c] = Drain(buffer[c]).rest]
    /\ lines' = [lines EXCEPT ![c] = Append(@, Drain(buffer[c]).line)]
    /\ UNCHANGED <<mainPc, clientVars, pc, req, resp, session, sessionVars,
                   backendVars, consumed, handed, answered, staticVars>>

\* every static forced by the first call of handle_request
MutStaticsAllAtOnce(data) ==
    {"KEY_PATTERN", "VALID_PRODUCERS", "VALID_OBJECTS", "SCHEMAS"}

\* the lazy_static values a call of handle_request dereferences
StaticsUsed(data) ==
    IF ~DecodeOk(data) THEN {}
    ELSE {"KEY_PATTERN", "VALID_PRODUCERS", "VALID_OBJECTS"}
             \cup (IF is_valid_key(Decode(data).key) /\ Decode(data).value.t # "none"
                   THEN {"SCHEMAS"} ELSE {})

\* the base key whose schema the call compiles (line 81), if any
Compiled(data) ==
    IF DecodeOk(data) /\ is_valid_key(Decode(data).key)
           /\ Decode(data).value.t # "none"
           /\ base_key(Decode(data).key) \in DOMAIN SCHEMAS
    THEN {base_key(Decode(data).key)} ELSE {}

\* a line is taken and handle_request runs up to its first backend call
\* (lines 168-170, 93-112)
HandleLine(c) ==
    /\ pc[c] = "frame"
    /\ NewlinePos(buffer[c]) # 0
    /\ IsUtf8(Drain(buffer[c]).line)
    /\ LET data == Trim(Drain(buffer[c]).line)
           early == EarlyResponse(data)
       IN /\ buffer' = [buffer EXCEPT ![c] = Drain(buffer[c]).rest]
          /\ lines' = [lines EXCEPT ![c] = Append(@, Drain(buffer[c]).line)]
          /\ handed' = [handed EXCEPT ![c] = Append(@, data)]
          /\ statics' = statics \cup StaticsUsed(data)
          /\ compiles' = [b \in DOMAIN SCHEMAS |->
                             IF b \in Compiled(data) THEN compiles[b] + 1
                             ELSE compiles[b]]
          /\ IF early # NoResponse
             THEN /\ resp' = [resp EXCEPT ![c] = early]
                  /\ pc' = [pc EXCEPT ![c] = "write"]
                  /\ req' = req
             ELSE /\ req' = [req EXCEPT ![c] = Decode(data)]
                  /\ pc' = [pc EXCEPT ![c] = "mutate"]
                  /\ resp' = resp
    /\ UNCHANGED <<mainPc, clientVars, session, sessionVars, backendVars,
                   consumed, answered>>

\* whether Redis answers a command sent on session sid: a broken connection
\* stays broken, an open one may break
CallOutcomes(sid) ==
    IF sessState[sid] # "open" THEN {FALSE}
    ELSE {TRUE} \cup {FALSE : i \in 1..(MaxFaults - faults)}

\* the outcome of a command sent on session sid: "" for Ok, else the text
\* of the RedisError
CallError(sid, cmd, up) ==
    IF sessState[sid] # "open" \/ ~up THEN IoError
    ELSE IF Rejects(cmd, store[cmd.key]) THEN WrongType
    ELSE ""

\* whether the match arm goes on to .and_then(publish) (lines 115-128)
MutPublishAlways(err) == TRUE

GoesOnToPublish(err) == err = ""

\* the mutating command of the match arm (lines 115, 118, 122, 127)
Mutate(c) ==
    /\ pc[c] = "mutate"
    /\ \E up \in CallOutcomes(SessionOf(c)) :
        LET cmd == MutationCmd(req[c])
            sid == SessionOf(c)
            err == CallError(sid, cmd, up)
        IN /\ sessLog' = [sessLog EXCEPT
                             ![sid] = Append(@, Call(c, Len(lines[c]), cmd, err))]
           /\ sessState' = IF err = IoError
                           THEN [sessState EXCEPT ![sid] = "broken"]
                           ELSE sessState
           /\ faults' = IF err = IoError /\ sessState[sid] = "open"
                        THEN faults + 1 ELSE faults
           /\ store' = IF err = ""
                       THEN [store EXCEPT ![cmd.key] = Applied(cmd, @)]
                       ELSE store
           /\ IF GoesOnToPublish(err)
              THEN /\ pc' = [pc EXCEPT ![c] = "publish"]
                   /\ resp' = resp
              ELSE /\ pc' = [pc EXCEPT ![c] = "write"]
                   /\ resp' = [resp EXCEPT ![c] = ErrorResponse(err)]
    /\ UNCHANGED <<mainPc, clientVars, buffer, req, session, nextSession,
                   channels, histVars, staticVars>>

\* the response of handle_request after the publish (lines 137-146)
ResultResponse(err) == IF err = "" THEN OkResponse ELSE ErrorResponse(err)

\* the publish of the match arm (lines 116, 119, 123, 128)
Publish(c) ==
    /\ pc[c] = "publish"
    /\ \E up \in CallOutcomes(SessionOf(c)) :
        LET cmd == PublishCmd(req[c])
            sid == SessionOf(c)
            err == CallError(sid, cmd, up)
        IN /\ sessLog' = [sessLog EXCEPT
                             ![sid] = Append(@, Call(c, Len(lines[c]), cmd, err))]
           /\ sessState' = IF err = IoError
                           THEN [sessState EXCEPT ![sid] = "broken"]
                           ELSE sessState
           /\ faults' = IF err = IoError /\ sessState[sid] = "open"
                        THEN faults + 1 ELSE faults
           /\ channels' = IF err = ""
                          THEN [channels EXCEPT ![cmd.key] = Append(@, cmd.arg)]
                          ELSE channels
           /\ resp' = [resp EXCEPT ![c] = ResultResponse(err)]
    /\ pc' = [pc EXCEPT ![c] = "write"]
    /\ UNCHANGED <<mainPc, clientVars, buffer, req, session, nextSession,
                   store, histVars, staticVars>>

\* stream.write_all(response.as_bytes()).unwrap() (line 171): the response
\* is written, or the thread panics because the peer has closed
Write(c) ==
    /\ pc[c] = "write"
    /\ ~peerClosed[c]
    /\ out' = [out EXCEPT ![c] = Append(@, resp[c])]
    /\ answered' = [answered EXCEPT ![c] = Append(@, Len(lines[c]))]
    /\ resp' = [resp EXCEPT ![c] = NoResponse]
    /\ req' = [req EXCEPT ![c] = NoRequest]
    /\ pc' = [pc EXCEPT ![c] = "frame"]
    /\ UNCHANGED <<mainPc, inbox, peerClosed, buffer, session, sessionVars,
                   backendVars, consumed, lines, handed, staticVars>>

WritePanic(c) ==
    /\ pc[c] = "write"
    /\ peerClosed[c]
    /\ pc' = [pc EXCEPT ![c] = "panic_write"]
    /\ sessState' = Released(c)
    /\ UNCHANGED <<mainPc, clientVars, buffer, req, resp, session, nextSession, faults,
                   backendVars, histVars, staticVars>>

(***************************************************************************)
(* The client: it has sent its stream and may close at any time.  The      *)
(* worker sees a close only in a write, or in a read once every byte sent  *)
(* has been read, so the close is taken when the worker is at one of them. *)
(***************************************************************************)
ClientClose(c) ==
    /\ pc[c] = "write" \/ (pc[c] = "read" /\ inbox[c] = <<>>)
    /\ ~peerClosed[c]
    /\ peerClosed' = [peerClosed EXCEPT ![c] = TRUE]
    /\ UNCHANGED <<mainPc, inbox, out, workerVars, sessionVars, backendVars,
                   histVars, staticVars>>

Worker(c) ==
    \/ GetConnection(c)
    \/ Read(c)
    \/ ReadEof(c)
    \/ ReadError(c)
    \/ FrameNoLine(c)
    \/ FrameSkip(c)
    \/ HandleLine(c)
    \/ Mutate(c)
    \/ Publish(c)
    \/ Write(c)
    \/ WritePanic(c)

Next ==
    \/ MainStart
    \/ \E c \in Conns : Accept(c)
    \/ \E c \in Conns : Worker(c)
    \/ \E c \in Conns : ClientClose(c)

Spec == Init /\ [][Next]_vars

SpecRequests == InitRequests /\ [][Next]_vars

SpecKeys == InitKeys /\ [][Next]_vars

\* the main thread is scheduled: it keeps taking the turns of its accept
\* loop, whatever the workers and the clients do
SpecAccept ==
    /\ InitLive /\ [][Next]_vars
    /\ WF_vars(MainStart)
    /\ \A c \in Conns : WF_vars(Accept(c))

SpecValues == InitValues /\ [][Next]_vars

(***************************************************************************)
(* Vocabulary of the properties.                                           *)
(***************************************************************************)
Lines(c) == 1..Len(lines[c])

\* line k of connection c is text that decodes into a Request
Decodable(c, k) == IsUtf8(lines[c][k]) /\ DecodeOk(Trim(lines[c][k]))

ReqOf(c, k) == Decode(Trim(lines[c][k]))

\* the worker has finished with line k: it is not the line being handled
Finished(c, k) ==
    /\ k \in Lines(c)
    /\ k < Len(lines[c]) \/ pc[c] \notin {"mutate", "publish", "write"}

\* the commands Redis received for line k of connection c, on any session
CallsAbout(c, k) ==
    {e \in UNION {Range(sessLog[s]) : s \in Sessions} : e.by = c /\ e.line = k}

\* the commands the worker's own session received for line k, in order
OwnCalls(c, k) ==
    IF session[c] = 0 THEN <<>>
    ELSE SelectSeq(sessLog[session[c]], LAMBDA e : e.by = c /\ e.line = k)

\* the responses written for line k of connection c
ResponsesTo(c, k) ==
    {out[c][i] : i \in {j \in 1..Len(out[c]) : answered[c][j] = k}}

BadKey(c, k) == Decodable(c, k) /\ ~is_valid_key(ReqOf(c, k).key)

HasValue(c, k) == Decodable(c, k) /\ ReqOf(c, k).value.t # "none"

\* the violations of the schema registered for the request's base key
ValueErrors(c, k) ==
    IF base_key(ReqOf(c, k).key) \in DOMAIN SCHEMAS
    THEN SchemaErrors(SCHEMAS[base_key(ReqOf(c, k).key)], ReqOf(c, k).value)
    ELSE <<>>

BadValue(c, k) == HasValue(c, k) /\ ~BadKey(c, k) /\ ValueErrors(c, k) # <<>>

Mutations == {"SET", "DEL", "SADD", "SREM"}

(***************************************************************************)
(* C1 as stated: no backend command is ever issued for a request whose key *)
(* fails the key grammar, nor for a request whose base key has a           *)
(* registered schema and whose value fails that schema, the value of a     *)
(* set, sadd or srem that names none being null; such a request only gets  *)
(* the error "Invalid key format", or the schema violations.  The code     *)
(* does not hold to it: a request whose value is absent or null is not     *)
(* validated (line 102), and null conforms to neither schema.              *)
(***************************************************************************)
\* the value the request is dispatched with: null when it names none
ValueAsDispatched(c, k) ==
    IF ReqOf(c, k).value.t = "none" THEN NullValue ELSE ReqOf(c, k).value

\* the violations of the registered schema by the value as dispatched
DispatchedValueErrors(c, k) ==
    IF base_key(ReqOf(c, k).key) \in DOMAIN SCHEMAS
    THEN SchemaErrors(SCHEMAS[base_key(ReqOf(c, k).key)], ValueAsDispatched(c, k))
    ELSE <<>>

\* a request with a value: one it names, or the null a set, sadd or srem
\* that names none is dispatched with
FailingValue(c, k) ==
    /\ Decodable(c, k) /\ ~BadKey(c, k)
    /\ HasValue(c, k) \/ ReqOf(c, k).action \in {<<"set">>, <<"sadd">>, <<"srem">>}
    /\ DispatchedValueErrors(c, k) # <<>>

C1_NoFailingValueReachesBackend ==
    \A c \in Conns : \A k \in Lines(c) :
        /\ BadKey(c, k) =>
              /\ CallsAbout(c, k) = {}
              /\ ResponsesTo(c, k) \subseteq {ErrorResponse("Invalid key format")}
        /\ FailingValue(c, k) =>
              /\ CallsAbout(c, k) = {}
              /\ ResponsesTo(c, k)
                    \subseteq {SchemaErrorResponse(DispatchedValueErrors(c, k))}

(***************************************************************************)
(* C1, amended.  No backend command is ever issued for a request whose key *)
(* fails the key grammar, nor for a request that carries a value other     *)
(* than null which fails the schema registered for its base key; the only  *)
(* response to such a request is the error "Invalid key format", or the    *)
(* schema violations, and no key outside the grammar ever holds a value or *)
(* a notification.                                                         *)
(***************************************************************************)
C1_NoInvalidRequestReachesBackend ==
    /\ \A c \in Conns : \A k \in Lines(c) :
          /\ BadKey(c, k) =>
                /\ CallsAbout(c, k) = {}
                /\ ResponsesTo(c, k) \subseteq {ErrorResponse("Invalid key format")}
          /\ BadValue(c, k) =>
                /\ CallsAbout(c, k) = {}
                /\ ResponsesTo(c, k) \subseteq {SchemaErrorResponse(ValueErrors(c, k))}
    /\ \A key \in DOMAIN store :
          ~is_valid_key(key) => store[key] = Absent /\ channels[key] = <<>>

\* a bad key and a bad value have both been answered on one connection
C1_Witness ==
    \E c \in Conns : \E k1, k2 \in Lines(c) :
        /\ BadKey(c, k1) /\ ResponsesTo(c, k1) # {}
        /\ BadValue(c, k2) /\ ResponsesTo(c, k2) # {}

(***************************************************************************)
(* C3.  The mutation is the first command of a request, a PUBLISH is sent  *)
(* only right after the successful mutation of the same request, and when  *)
(* the mutation succeeded and the PUBLISH failed the response is an Error  *)
(* carrying the failure while the store holds the mutation's effect.       *)
(***************************************************************************)
\* the value at a key shows the effect of the mutation cmd
ShowsEffect(cmd, val) ==
    CASE cmd.op = "SET" -> val = StringVal(cmd.arg)
      [] cmd.op = "DEL" -> val = Absent
      [] cmd.op = "SADD" -> val.t = "set" /\ cmd.arg \in val.m
      [] cmd.op = "SREM" -> val.t # "string" /\ cmd.arg \notin val.m
      [] OTHER -> FALSE

PublishFailedAfterMutation(c) ==
    /\ pc[c] = "write"
    /\ Len(OwnCalls(c, Len(lines[c]))) = 2
    /\ OwnCalls(c, Len(lines[c]))[2].err # ""

C3_MutationThenPublish ==
    /\ \A s \in Sessions : \A i \in 1..Len(sessLog[s]) :
          LET e == sessLog[s][i] IN
          IF e.cmd.op = "PUBLISH"
          THEN /\ i > 1
               /\ sessLog[s][i - 1].by = e.by /\ sessLog[s][i - 1].line = e.line
               /\ sessLog[s][i - 1].cmd.op \in Mutations
               /\ sessLog[s][i - 1].err = ""
          ELSE /\ e.cmd.op \in Mutations
               /\ \A j \in 1..(i - 1) :
                     ~(sessLog[s][j].by = e.by /\ sessLog[s][j].line = e.line)
    /\ \A c \in Conns :
          /\ pc[c] = "mutate" => CallsAbout(c, Len(lines[c])) = {}
          /\ PublishFailedAfterMutation(c) =>
                LET calls == OwnCalls(c, Len(lines[c])) IN
                /\ resp[c] = ErrorResponse(calls[2].err)
                /\ ShowsEffect(calls[1].cmd, store[calls[1].cmd.key])

\* a mutation has succeeded, its publish has failed, and the error is written
C3_Witness ==
    \E c \in Conns : \E k \in Lines(c) :
        /\ Finished(c, k)
        /\ Len(OwnCalls(c, k)) = 2
        /\ OwnCalls(c, k)[1].err = "" /\ OwnCalls(c, k)[2].err # ""
        /\ ResponsesTo(c, k) = {ErrorResponse(IoError)}
        /\ store[ReqOf(c, k).key] # Absent

(***************************************************************************)
(* C7.  Framing does not depend on how the stream is cut into reads: the   *)
(* lines drained from the buffer are the newline-terminated segments of    *)
(* the bytes read so far, the buffer holds the bytes after the last        *)
(* delimiter, and the texts passed to handle_request are the UTF-8 lines   *)
(* among them, trimmed, in order.                                          *)
(***************************************************************************)
\* the segments of a byte stream, each with its delimiter; the last segment
\* is the unterminated rest
Segments(bytes) ==
    LET segs == SplitOn(bytes, NL) IN
    [i \in 1..Len(segs) |-> IF i < Len(segs) THEN Append(segs[i], NL) ELSE segs[i]]

Terminated(bytes) == SubSeq(Segments(bytes), 1, Len(Segments(bytes)) - 1)

Rest(bytes) == Segments(bytes)[Len(Segments(bytes))]

RECURSIVE TrimmedTexts(_)
TrimmedTexts(ls) ==
    IF ls = <<>> THEN <<>>
    ELSE (IF IsUtf8(Head(ls)) THEN <<Trim(Head(ls))>> ELSE <<>>)
             \o TrimmedTexts(Tail(ls))

\* the segments the worker has not drained yet
Undrained(c) == Len(Terminated(consumed[c])) - Len(lines[c])

C7_FramingIndependentOfReads ==
    \A c \in Conns :
        /\ lines[c] = SubSeq(Terminated(consumed[c]), 1, Len(lines[c]))
        /\ buffer[c] = Flatten(SubSeq(Terminated(consumed[c]), Len(lines[c]) + 1,
                                      Len(Terminated(consumed[c]))))
                           \o Rest(consumed[c])
        /\ pc[c] \in {"read", "exit_eof", "exit_readerr"} => Undrained(c) = 0
        /\ handed[c] = TrimmedTexts(lines[c])

\* the worker is in the while-let loop after reads that brought two whole
\* messages and the start of a third, none drained yet
C7_Witness ==
    \E c \in Conns :
        /\ pc[c] = "frame"
        /\ lines[c] = <<>>
        /\ Undrained(c) = 2
        /\ Rest(consumed[c]) # <<>>
        /\ inbox[c] # <<>>

(***************************************************************************)
(* C10.  A set, sadd or srem request with a valid key and a value that     *)
(* conforms to the schema of its base key makes the gateway send SET,      *)
(* SADD or SREM with (key, s) and, that command succeeding, PUBLISH on the *)
(* channel key with "set: " s, "sadd: " s or "srem: " s, s being the       *)
(* serialized value in both; both succeeding, the response is ok.          *)
(***************************************************************************)
VerbOp(a) ==
    CASE a = <<"set">> -> "SET"
      [] a = <<"sadd">> -> "SADD"
      [] a = <<"srem">> -> "SREM"
      [] OTHER -> ""

VerbPrefix(a) ==
    CASE a = <<"set">> -> "set: "
      [] a = <<"sadd">> -> "sadd: "
      [] a = <<"srem">> -> "srem: "
      [] OTHER -> ""

\* line k is a well-formed set, sadd or srem request with a conforming value
ValidWrite(c, k) ==
    /\ HasValue(c, k)
    /\ ~BadKey(c, k) /\ ~BadValue(c, k)
    /\ ReqOf(c, k).action \in {<<"set">>, <<"sadd">>, <<"srem">>}

C10_WriteDispatch ==
    \A c \in Conns : \A k \in Lines(c) :
        ValidWrite(c, k) /\ Finished(c, k) /\ pc[c] # "panic_write" =>
            LET r == ReqOf(c, k)
                text == to_string(r.value)
                calls == OwnCalls(c, k)
            IN /\ Len(calls) \in 1..2
               /\ calls[1].cmd = Cmd(VerbOp(r.action), r.key, BStr("", text))
               /\ calls[1].err = "" =>
                     /\ Len(calls) = 2
                     /\ calls[2].cmd =
                            Cmd("PUBLISH", r.key, BStr(VerbPrefix(r.action), text))
               /\ (\A i \in 1..Len(calls) : calls[i].err = "") =>
                     /\ Len(calls) = 2
                     /\ ResponsesTo(c, k) = {OkResponse}

\* a set whose object value was reordered by serialization, and an sadd,
\* have both been stored, published and answered ok
C10_Witness ==
    \E c \in Conns : \E k1, k2 \in Lines(c) :
        /\ ValidWrite(c, k1) /\ ValidWrite(c, k2)
        /\ ReqOf(c, k1).action = <<"set">> /\ ReqOf(c, k1).value.t = "obj"
        /\ ReqOf(c, k2).action = <<"sadd">>
        /\ ResponsesTo(c, k1) = {OkResponse}
        /\ ResponsesTo(c, k2) = {OkResponse}
        /\ Len(channels[ReqOf(c, k1).key]) = 1
        /\ channels[ReqOf(c, k1).key][1].j # TheMember(Trim(lines[c][k1]), Name_value).v

(***************************************************************************)
(* The response a line calls for: "Invalid request format" for a line that *)
(* does not decode, the early return of handle_request, or the outcome of  *)
(* the commands sent for it on the worker's own session.                   *)
(***************************************************************************)
Expected(c, k) ==
    IF ~Decodable(c, k) THEN ErrorResponse("Invalid request format")
    ELSE IF EarlyResponse(Trim(lines[c][k])) # NoResponse
         THEN EarlyResponse(Trim(lines[c][k]))
    ELSE LET calls == OwnCalls(c, k) IN
         IF Len(calls) = 2 /\ calls[1].err = "" /\ calls[2].err = "" THEN OkResponse
         ELSE IF Len(calls) = 0 THEN NoResponse
         ELSE ErrorResponse(calls[Len(calls)].err)

\* the indices of the responses written for line k
AnswersTo(c, k) == {i \in 1..Len(out[c]) : answered[c][i] = k}

(***************************************************************************)
(* C2.  On every connection the k-th response written is the response to   *)
(* the k-th newline-terminated message: every message the worker is done   *)
(* with has exactly one response, and a message is handled only when all   *)
(* earlier messages have been answered.                                    *)
(***************************************************************************)
C2_KthResponseAnswersKthMessage ==
    \A c \in Conns :
        /\ \A i \in 1..Len(out[c]) : answered[c][i] = i /\ out[c][i] = Expected(c, i)
        /\ \A k \in Lines(c) :
              Finished(c, k) /\ pc[c] # "panic_write" => Cardinality(AnswersTo(c, k)) = 1
        /\ pc[c] \in {"mutate", "publish", "write"} => Len(out[c]) = Len(lines[c]) - 1

(***************************************************************************)
(* C5.  No error class ends a worker: after an Error response the worker   *)
(* goes on with the connection, and a worker ends only because the peer    *)
(* closed or a read or write on the connection failed.                     *)
(***************************************************************************)
EndedBy(c) ==
    CASE pc[c] = "exit_eof" -> "peer closed"
      [] pc[c] = "exit_readerr" -> "read failure"
      [] pc[c] = "panic_write" -> "write failure"
      [] pc[c] = "panic_session" -> "backend failure"
      [] OTHER -> "running"

C5_OnlyTransportEndsWorker ==
    \A c \in Conns :
        /\ EndedBy(c) \in {"running", "peer closed", "read failure", "write failure"}
        /\ resp[c].status = "error" => pc[c] \in {"write", "panic_write"}

(***************************************************************************)
(* C6.  The response to a dispatched request is ok exactly when the        *)
(* mutation and the publish both succeeded; every backend failure, a       *)
(* rejected command or a connection error, reaches the client as an Error  *)
(* response carrying the failure's text; and a request causes at most one  *)
(* mutation command and at most one publish command.                       *)
(***************************************************************************)
C6_BackendFailuresReported ==
    \A c \in Conns :
        /\ \A k \in Lines(c) :
              LET calls == OwnCalls(c, k) IN
              /\ Cardinality({i \in 1..Len(calls) : calls[i].cmd.op \in Mutations}) <= 1
              /\ Cardinality({i \in 1..Len(calls) : calls[i].cmd.op = "PUBLISH"}) <= 1
              /\ Finished(c, k) /\ pc[c] # "panic_write" /\ calls # <<>> =>
                    /\ ResponsesTo(c, k) = {OkResponse}
                           <=> (Len(calls) = 2 /\ \A i \in 1..2 : calls[i].err = "")
                    /\ \A i \in 1..Len(calls) :
                           calls[i].err # "" =>
                               ResponsesTo(c, k) = {ErrorResponse(calls[i].err)}
        /\ pc[c] = "panic_session" => ErrorResponse(IoError) \in Range(out[c])

(***************************************************************************)
(* C8.  Every message that does not decode into a Request gets the Error   *)
(* response "Invalid request format" and causes no backend command, and    *)
(* the worker goes on with the connection.                                 *)
(***************************************************************************)
C8_UndecodableGetsError ==
    \A c \in Conns : \A k \in Lines(c) :
        ~Decodable(c, k) =>
            /\ CallsAbout(c, k) = {}
            /\ Finished(c, k) /\ pc[c] # "panic_write" =>
                  /\ Cardinality(AnswersTo(c, k)) = 1
                  /\ ResponsesTo(c, k) = {ErrorResponse("Invalid request format")}

(***************************************************************************)
(* C9.  A del request with a valid key results in DEL(key) and, that       *)
(* command succeeding, PUBLISH(key, "del"), whatever its value holds.      *)
(***************************************************************************)
ValidDel(c, k) ==
    Decodable(c, k) /\ ~BadKey(c, k) /\ ReqOf(c, k).action = <<"del">>

C9_DelIgnoresValue ==
    \A c \in Conns : \A k \in Lines(c) :
        ValidDel(c, k) /\ Finished(c, k) /\ pc[c] # "panic_write" =>
            LET calls == OwnCalls(c, k) IN
            /\ Len(calls) \in 1..2
            /\ calls[1].cmd = Cmd("DEL", ReqOf(c, k).key, NoBStr)
            /\ calls[1].err = "" =>
                  /\ Len(calls) = 2
                  /\ calls[2].cmd = Cmd("PUBLISH", ReqOf(c, k).key, BStr("del", NoText))

(***************************************************************************)
(* What a client's own requests make of a key when they are run alone, one *)
(* after the other, from an empty store.                                   *)
(***************************************************************************)
\* the commands the lines of connection c call for: the mutation m and the
\* publish p, NoCmd for a line that is answered without them
Plan(c) ==
    [k \in Lines(c) |->
        IF Decodable(c, k) /\ EarlyResponse(Trim(lines[c][k])) = NoResponse
        THEN [m |-> MutationCmd(ReqOf(c, k)), p |-> PublishCmd(ReqOf(c, k))]
        ELSE [m |-> NoCmd, p |-> NoCmd]]

RECURSIVE SeqStore(_, _, _)
\* the value at key after the first k lines of the plan
SeqStore(plan, key, k) ==
    IF k = 0 THEN Absent
    ELSE LET before == SeqStore(plan, key, k - 1) IN
         IF plan[k].m # NoCmd /\ plan[k].m.key = key /\ ~Rejects(plan[k].m, before)
         THEN Applied(plan[k].m, before)
         ELSE before

RECURSIVE SeqChannel(_, _, _)
\* the notifications on the channel key after the first k lines of the plan
SeqChannel(plan, key, k) ==
    IF k = 0 THEN <<>>
    ELSE IF plan[k].m # NoCmd /\ plan[k].m.key = key
               /\ ~Rejects(plan[k].m, SeqStore(plan, key, k - 1))
         THEN Append(SeqChannel(plan, key, k - 1), plan[k].p.arg)
         ELSE SeqChannel(plan, key, k - 1)

\* the keys the requests of a byte stream name
KeysNamed(bytes) ==
    {bytes[i].v.s : i \in {j \in 1..Len(bytes) :
                              bytes[j].k = "member" /\ bytes[j].n = Name_key
                                  /\ bytes[j].v.t = "str"}}

\* no other client names the key, in what it has sent or will send
OnlyNamedBy(c, key) ==
    \A c2 \in Conns \ {c} : key \notin KeysNamed(consumed[c2] \o inbox[c2])

\* Redis has answered every command the worker's session sent
NeverFailed(c) ==
    session[c] # 0 /\ \A i \in 1..Len(sessLog[session[c]]) :
                          sessLog[session[c]][i].err # IoError

\* the lines whose mutation, and whose publish, the worker is past
Mutated(c) == IF pc[c] = "mutate" THEN Len(lines[c]) - 1 ELSE Len(lines[c])
Published(c) ==
    IF pc[c] \in {"mutate", "publish"} THEN Len(lines[c]) - 1 ELSE Len(lines[c])

(***************************************************************************)
(* C4.  With clients connected concurrently, under every interleaving the  *)
(* responses written to a client are the responses to its own requests, in *)
(* the order sent, one for each request its worker is done with, and a     *)
(* worker that ends on the peer's close has handled every request sent.    *)
(* Their valid operations complete: while Redis answers a worker's         *)
(* session, each of its set requests is answered ok after SET and PUBLISH  *)
(* have succeeded, and a key that one client alone names holds, and its    *)
(* channel has carried, exactly what that client's requests run alone one  *)
(* after the other make of it, whatever the other clients do.  Each worker *)
(* has one session of its own, every command sent for a connection goes    *)
(* through its worker's session, and no session serves two workers.        *)
(***************************************************************************)
C4_ConnectionsIsolated ==
    /\ \A c \in Conns :
          /\ \A i \in 1..Len(out[c]) :
                /\ out[c][i] = Expected(c, answered[c][i])
                /\ i > 1 => answered[c][i - 1] < answered[c][i]
          /\ \A k \in Lines(c) :
                IsUtf8(lines[c][k]) /\ Finished(c, k) /\ pc[c] # "panic_write" =>
                    Cardinality(AnswersTo(c, k)) = 1
          /\ NeverFailed(c) =>
                LET plan == Plan(c) IN
                /\ \A k \in Lines(c) :
                      plan[k].m.op = "SET" /\ Finished(c, k) =>
                          /\ OwnCalls(c, k) = <<Call(c, k, plan[k].m, ""),
                                                Call(c, k, plan[k].p, "")>>
                          /\ pc[c] # "panic_write" =>
                                ResponsesTo(c, k) = {OkResponse}
                /\ \A key \in KeysNamed(consumed[c] \o inbox[c]) :
                      OnlyNamedBy(c, key) =>
                          /\ store[key] = SeqStore(plan, key, Mutated(c))
                          /\ channels[key] = SeqChannel(plan, key, Published(c))
          /\ pc[c] = "exit_eof" =>
                inbox[c] = <<>> /\ lines[c] = Terminated(consumed[c])
          /\ pc[c] \in {"read", "frame", "mutate", "publish", "write"} =>
                session[c] # 0 /\ sessState[session[c]] \in {"open", "broken"}
    /\ \A c1, c2 \in Conns : c1 # c2 /\ session[c1] # 0 => session[c1] # session[c2]
    /\ \A s \in Sessions : \A i \in 1..Len(sessLog[s]) : session[sessLog[s][i].by] = s
    /\ Cardinality({c \in Conns : session[c] # 0}) = nextSession - 1

\* two clients have each sent two set requests on a key of their own and
\* have ended on their close: the four operations have completed, each
\* client has its two ok responses, and each key holds its client's value
C4_Witness ==
    \E c1, c2 \in Conns :
        /\ c1 # c2
        /\ pc[c1] = "exit_eof" /\ pc[c2] = "exit_eof"
        /\ \A c \in {c1, c2} :
              /\ Len(lines[c]) = 2 /\ out[c] = <<OkResponse, OkResponse>>
              /\ \A k \in 1..2 : Plan(c)[k].m.op = "SET" /\ Plan(c)[k].m.key = OwnKey(c)
              /\ store[OwnKey(c)] = StringVal(BStr("", to_string(ReqOf(c, 2).value)))
              /\ Len(channels[OwnKey(c)]) = 2
        /\ OwnKey(c1) # OwnKey(c2)

(***************************************************************************)
(* C11.  is_valid_key(k) is true exactly when k is cs:<producer>:<object>, *)
(* optionally followed by :<id> and/or :<function>, producer and object    *)
(* from the allow-lists, id and function non-empty runs of word            *)
(* characters; so the empty key, a producer or object outside the lists,   *)
(* extra segments and trailing characters are rejected, and the response   *)
(* to a request is "Invalid key format" exactly when its key is not of     *)
(* this form.                                                              *)
(***************************************************************************)
\* the keys of the grammar, built by concatenation
InGrammar(key) ==
    \E p \in Range(VALID_PRODUCERS), o \in Range(VALID_OBJECTS) :
        LET head == <<"cs", ":", p, ":", o>> IN
        \/ key = head
        \/ \E i \in 1..(Len(key) - 6) :
              LET id == SubSeq(key, 7, 6 + i) IN
              /\ IsWordSeg(id)
              /\ \/ key = head \o <<":">> \o id
                 \/ \E j \in 1..(Len(key) - 7 - i) :
                       LET function == SubSeq(key, 8 + i, 7 + i + j) IN
                       /\ IsWordSeg(function)
                       /\ key = head \o <<":">> \o id \o <<":">> \o function

C11_KeyGrammar ==
    \A c \in Conns : \A k \in Lines(c) :
        Decodable(c, k) =>
            /\ is_valid_key(ReqOf(c, k).key) <=> InGrammar(ReqOf(c, k).key)
            /\ \A r \in ResponsesTo(c, k) :
                  r = ErrorResponse("Invalid key format") <=> ~InGrammar(ReqOf(c, k).key)

\* the edge cases have been answered: the empty key, an unknown producer,
\* a sixth segment and a trailing character are rejected, and the key with
\* an id and a function is accepted
C11_Witness ==
    /\ inbox[1] = <<>> /\ Len(lines[1]) = 5 /\ Len(out[1]) = 5
    /\ ReqOf(1, 1).key = <<>>
    /\ ReqOf(1, 5).key = KPsmon \o <<":", "sda1", ":", "read">>
    /\ \A i \in 1..4 : out[1][i] = ErrorResponse("Invalid key format")
    /\ out[1][5] = OkResponse

(***************************************************************************)
(* C12.  Validation of a request's value succeeds whatever the value when  *)
(* no schema is registered for the first three segments of its key; when   *)
(* one is registered, whatever id or function follows, validation fails    *)
(* exactly when a required field is missing from the value or a field has  *)
(* the wrong primitive type, and the request is then answered with the     *)
(* schema error.                                                           *)
(***************************************************************************)
\* the fields a value has: those of an object, none for any other value
FieldsOf(v) == IF v.t = "obj" THEN v.o ELSE {}

MissingRequired(schema, v) ==
    {n \in Range(schema.required) : \A m \in FieldsOf(v) : m.n # n}

WronglyTyped(schema, v) ==
    {m.n : m \in {x \in FieldsOf(v) :
                    \E p \in Range(schema.props) : p.n = x.n /\ ~HasType(x.t, x.s, p.t)}}

FirstThree(key) == SubSeq(key, 1, 5)

C12_SchemaValidation ==
    \A c \in Conns : \A k \in Lines(c) :
        HasValue(c, k) /\ InGrammar(ReqOf(c, k).key) =>
            LET r == ReqOf(c, k)
                errs == validate_json_schema(r.key, r.value)
            IN /\ FirstThree(r.key) \notin DOMAIN SCHEMAS => errs = <<>>
               /\ FirstThree(r.key) \in DOMAIN SCHEMAS =>
                     (errs # <<>> <=>
                         \/ MissingRequired(SCHEMAS[FirstThree(r.key)], r.value) # {}
                         \/ WronglyTyped(SCHEMAS[FirstThree(r.key)], r.value) # {})
               /\ \A w \in ResponsesTo(c, k) :
                     IF errs = <<>> THEN w.message.errs = <<>>
                     ELSE w = SchemaErrorResponse(errs)

\* a value without "version" and with a string "usage", sent for a key
\* with an id and a function, has been refused with both violations
C12_Witness ==
    /\ Len(out[1]) = 1 /\ HasValue(1, 1)
    /\ ReqOf(1, 1).key = KDisk \o <<":", "sda1", ":", "read">>
    /\ ReqOf(1, 1).value.o = {Mem(Name_disk, "str", <<"up">>), Mem(Name_usage, "str", <<"up">>)}
    /\ out[1][1] = SchemaErrorResponse(<<Violation("type", Name_usage),
                                          Violation("required", Name_version)>>)

(***************************************************************************)
(* C13.  A decoded request with a valid key whose action is none of set,   *)
(* del, sadd, srem causes no backend call, neither a mutation nor a        *)
(* publish, and is answered with an Error response: "Invalid action" when  *)
(* it carries no value or a value that passes the schema of its base key,  *)
(* and the schema error when its value fails that schema.                  *)
(***************************************************************************)
UnknownAction(c, k) ==
    Decodable(c, k) /\ ~BadKey(c, k) /\ ReqOf(c, k).action \notin Actions

C13_InvalidAction ==
    \A c \in Conns : \A k \in Lines(c) :
        UnknownAction(c, k) =>
            /\ CallsAbout(c, k) = {}
            /\ \A r \in ResponsesTo(c, k) :
                  r = IF BadValue(c, k) THEN SchemaErrorResponse(ValueErrors(c, k))
                      ELSE ErrorResponse("Invalid action")
            /\ Finished(c, k) /\ pc[c] # "panic_write" => ResponsesTo(c, k) # {}

\* C13 as the spec states it: whatever the request's value, the response to
\* an unknown action on a valid key is "Invalid action", and nothing reaches
\* the backend
C13_InvalidActionAlways ==
    \A c \in Conns : \A k \in Lines(c) :
        UnknownAction(c, k) =>
            /\ CallsAbout(c, k) = {}
            /\ \A r \in ResponsesTo(c, k) : r = ErrorResponse("Invalid action")

\* two unknown actions on valid keys have been answered, the first with a
\* value that passes its schema and the second without a value, both with
\* "Invalid action", and Redis has received nothing
C13_Witness ==
    /\ Len(lines[1]) = 2 /\ Len(out[1]) = 2
    /\ UnknownAction(1, 1) /\ HasValue(1, 1) /\ ~BadValue(1, 1)
    /\ ReqOf(1, 1).key \in DOMAIN SCHEMAS
    /\ UnknownAction(1, 2) /\ ~HasValue(1, 2)
    /\ out[1] = <<ErrorResponse("Invalid action"), ErrorResponse("Invalid action")>>
    /\ \A s \in Sessions : sessLog[s] = <<>>
    /\ \A key \in DOMAIN store : store[key] = Absent /\ channels[key] = <<>>

(***************************************************************************)
(* C14.  The accept loop is never blocked by a worker: whatever the        *)
(* workers are doing, accepting a pending connection is enabled once the   *)
(* listener is bound, and when the main thread is scheduled every pending  *)
(* connection is eventually accepted and handed to a worker of its own,    *)
(* even if another client stays connected and idle forever.                *)
(***************************************************************************)
C14_AcceptNeverBlocked ==
    /\ [](\A c \in Conns :
             mainPc = "accepting" /\ pc[c] = "pending" => ENABLED Accept(c))
    /\ \A c \in Conns : (pc[c] = "pending") ~> (pc[c] \notin {"pending", "off"})

\* one client has been accepted and is idle, its worker waiting in read with
\* a session open and nothing to read, and the other client has been
\* accepted after it and has had its request answered on a session of its own
C14_Witness ==
    \E c, d \in Conns :
        /\ c # d
        /\ pc[c] = "read" /\ inbox[c] = <<>> /\ ~peerClosed[c] /\ consumed[c] = <<>>
        /\ session[c] # 0 /\ session[d] # 0 /\ session[c] < session[d]
        /\ Len(out[d]) = 1

(***************************************************************************)
(* C15.  Each part of the static configuration is initialized at most      *)
(* once and never modified afterwards, and it is initialized lazily: not   *)
(* by main before the first accept, but by the worker whose request first  *)
(* uses it, the allow-lists and the key grammar by the first request that  *)
(* decodes, the schema table by the first decoded request with a valid key *)
(* and a value.                                                            *)
(***************************************************************************)
AllStatics == {"KEY_PATTERN", "VALID_PRODUCERS", "VALID_OBJECTS", "SCHEMAS"}

KeyStatics == {"KEY_PATTERN", "VALID_PRODUCERS", "VALID_OBJECTS"}

\* the text handed to handle_request in this step by connection c, if any
HandsOver(c) == Len(handed'[c]) = Len(handed[c]) + 1

LastHanded(c) == handed'[c][Len(handed'[c])]

C15_StaticsLazyOnce ==
    [][/\ statics \subseteq statics'
       /\ mainPc' # mainPc => statics' = statics
       /\ \A c \in Conns :
             HandsOver(c) /\ DecodeOk(LastHanded(c)) => KeyStatics \subseteq statics'
       /\ statics' # statics =>
             \E c \in Conns :
                 /\ pc[c] = "frame" /\ HandsOver(c)
                 /\ DecodeOk(LastHanded(c))
                 /\ "SCHEMAS" \in statics' \ statics =>
                       /\ InGrammar(Decode(LastHanded(c)).key)
                       /\ Decode(LastHanded(c)).value.t # "none"]_vars

\* C15 as the spec states it: the whole static configuration is initialized
\* before the first connection is accepted, so it is there whenever a
\* worker exists
C15_StaticsBeforeAccept ==
    (\E c \in Conns : pc[c] \notin {"pending", "off"}) => statics = AllStatics

\* a worker has handled a request that decodes and carries no value: the
\* key grammar and the allow-lists are initialized, the schema table not yet
C15_Witness ==
    /\ Len(handed[1]) = 1 /\ Decodable(1, 1) /\ ~HasValue(1, 1)
    /\ Len(out[1]) = 1
    /\ statics = KeyStatics

(***************************************************************************)
(* C16.  A worker that has ended because its peer closed or a read failed  *)
(* has answered every complete message it received, each once and in       *)
(* order, has released its backend session, and has left the other         *)
(* workers' sessions and the accept loop as they were.                     *)
(***************************************************************************)
C16_EndsHavingAnswered ==
    \A c \in Conns :
        pc[c] \in {"exit_eof", "exit_readerr"} =>
            /\ lines[c] = Terminated(consumed[c])
            /\ \A k \in Lines(c) : Cardinality(AnswersTo(c, k)) = 1
            /\ \A i \in 1..Len(out[c]) : answered[c][i] = i
            /\ session[c] # 0 /\ sessState[session[c]] = "released"
            /\ \A d \in Conns \ {c} :
                  pc[d] \in {"read", "frame", "mutate", "publish", "write"} =>
                      sessState[session[d]] \in {"open", "broken"}
            /\ mainPc = "accepting"

(***************************************************************************)
(* C17.  Each registered schema is compiled at most once per base key      *)
(* for the lifetime of the process, every later validation against that    *)
(* base key reusing the compiled form.                                     *)
(***************************************************************************)
C17_SchemaCompiledOnce ==
    \A b \in DOMAIN SCHEMAS : compiles[b] <= 1

(***************************************************************************)
(* C18.  A set, sadd or srem request with a valid key and an absent or     *)
(* null value is dispatched without a schema check, also when a schema is  *)
(* registered for its base key: it is never answered with a schema error,  *)
(* the mutation carries the text null as its value and the notification    *)
(* is "<verb>: null".                                                      *)
(***************************************************************************)
\* line k is a set, sadd or srem with a valid key and no value
WriteOfNothing(c, k) ==
    /\ Decodable(c, k) /\ ~HasValue(c, k)
    /\ InGrammar(ReqOf(c, k).key)
    /\ ReqOf(c, k).action \in {<<"set">>, <<"sadd">>, <<"srem">>}

C18_AbsentValueDispatchedAsNull ==
    \A c \in Conns : \A k \in Lines(c) :
        WriteOfNothing(c, k) =>
            LET r == ReqOf(c, k)
                calls == OwnCalls(c, k)
            IN /\ \A w \in ResponsesTo(c, k) : w.message.errs = <<>>
               /\ Len(lines[c]) = 1 => \A b \in DOMAIN SCHEMAS : compiles[b] = 0
               /\ Finished(c, k) =>
                     /\ Len(calls) \in 1..2
                     /\ calls[1].cmd = Cmd(VerbOp(r.action), r.key, BStr("", JNullText))
                     /\ calls[1].err = "" =>
                           /\ Len(calls) = 2
                           /\ calls[2].cmd =
                                 Cmd("PUBLISH", r.key,
                                     BStr(VerbPrefix(r.action), JNullText))

\* an sadd without a value on a key whose base key has a schema has been
\* answered ok: the set holds the text null, "sadd: null" was published
C18_Witness ==
    /\ Len(lines[1]) = 1 /\ WriteOfNothing(1, 1)
    /\ ReqOf(1, 1).action = <<"sadd">>
    /\ FirstThree(ReqOf(1, 1).key) \in DOMAIN SCHEMAS
    /\ MembersNamed(Trim(lines[1][1]), Name_value) = {}
    /\ out[1] = <<OkResponse>>
    /\ store[ReqOf(1, 1).key] = SetVal({BStr("", JNullText)})
    /\ channels[ReqOf(1, 1).key] = <<BStr("sadd: ", JNullText)>>

(***************************************************************************)
(* C19.  Every text handed to handle_request is answered with one          *)
(* response, of the first class that applies in the order: decode failure, *)
(* invalid key, schema failure of a present value, invalid action, backend *)
(* failure, else ok.  So an invalid key with an unknown action gets        *)
(* "Invalid key format", and a valid key with an unknown action and a      *)
(* value failing the schema gets the schema error.                         *)
(***************************************************************************)
\* the first class that applies to line k of connection c
ErrorClass(c, k) ==
    IF ~Decodable(c, k) THEN "decode"
    ELSE LET r == ReqOf(c, k) IN
         IF ~InGrammar(r.key) THEN "key"
         ELSE IF /\ r.value.t # "none"
                 /\ FirstThree(r.key) \in DOMAIN SCHEMAS
                 /\ \/ MissingRequired(SCHEMAS[FirstThree(r.key)], r.value) # {}
                    \/ WronglyTyped(SCHEMAS[FirstThree(r.key)], r.value) # {}
              THEN "schema"
         ELSE IF r.action \notin Actions THEN "action"
         ELSE IF \E e \in CallsAbout(c, k) : e.err # "" THEN "backend"
         ELSE "none"

\* the class a response reports
ClassOf(w) ==
    CASE w.status = "ok" -> "none"
      [] w.status = "error" /\ w.message.errs # <<>> -> "schema"
      [] w = ErrorResponse("Invalid request format") -> "decode"
      [] w = ErrorResponse("Invalid key format") -> "key"
      [] w = ErrorResponse("Invalid action") -> "action"
      [] OTHER -> "backend"

C19_ErrorPrecedence ==
    \A c \in Conns : \A k \in Lines(c) :
        IsUtf8(lines[c][k]) =>
            /\ Cardinality(AnswersTo(c, k)) <= 1
            /\ Finished(c, k) /\ pc[c] # "panic_write" => Cardinality(AnswersTo(c, k)) = 1
            /\ \A w \in ResponsesTo(c, k) : ClassOf(w) = ErrorClass(c, k)
            /\ ErrorClass(c, k) \in {"decode", "key", "schema", "action"} =>
                  CallsAbout(c, k) = {}

\* an unknown action on an invalid key has been answered "Invalid key
\* format", and an unknown action on a valid key with a value that fails
\* the schema has been answered with the schema error
C19_Witness ==
    /\ Len(lines[1]) = 2 /\ Len(out[1]) = 2
    /\ Decodable(1, 1) /\ Decodable(1, 2)
    /\ ReqOf(1, 1).action \notin Actions /\ ~InGrammar(ReqOf(1, 1).key)
    /\ ReqOf(1, 2).action \notin Actions /\ BadValue(1, 2)
    /\ out[1][1] = ErrorResponse("Invalid key format")
    /\ ClassOf(out[1][2]) = "schema"

(***************************************************************************)
(* C20.  Bytes received after the last newline are never handled as a      *)
(* request: no line is handled, no command sent and no response written    *)
(* but for a newline-terminated message; a worker that ends on the peer's  *)
(* close or on a read error leaves the unterminated rest in its buffer;    *)
(* and the store and the channels hold only what the commands sent for     *)
(* terminated messages put there.                                          *)
(***************************************************************************)
AllCalls == UNION {Range(sessLog[s]) : s \in Sessions}

\* the successful commands of the given kinds on a key, as log positions
Succeeded(key, ops) ==
    UNION {{<<s, i>> : i \in {j \in 1..Len(sessLog[s]) :
                                /\ sessLog[s][j].cmd.key = key
                                /\ sessLog[s][j].cmd.op \in ops
                                /\ sessLog[s][j].err = ""}}
           : s \in Sessions}

C20_PartialMessageDiscarded ==
    /\ \A c \in Conns :
          LET whole == Terminated(consumed[c]) IN
          /\ Len(lines[c]) <= Len(whole)
          /\ \A i \in 1..Len(out[c]) : answered[c][i] \in 1..Len(whole)
          /\ \A e \in {x \in AllCalls : x.by = c} :
                /\ e.line \in 1..Len(whole)
                /\ IsUtf8(whole[e.line]) /\ DecodeOk(Trim(whole[e.line]))
                /\ e.cmd \in {MutationCmd(Decode(Trim(whole[e.line]))),
                              PublishCmd(Decode(Trim(whole[e.line])))}
          /\ pc[c] \in {"exit_eof", "exit_readerr"} => buffer[c] = Rest(consumed[c])
    /\ \A key \in DOMAIN store :
          /\ store[key] # Absent => Succeeded(key, Mutations) # {}
          /\ Len(channels[key]) = Cardinality(Succeeded(key, {"PUBLISH"}))

\* the peer sent an sadd and then a whole set request without its newline,
\* and closed: the worker has ended, the sadd was answered ok, and the set
\* is still in the buffer, never sent to Redis and never answered
C20_Witness ==
    /\ pc[1] = "exit_eof" /\ peerClosed[1]
    /\ Len(lines[1]) = 1 /\ out[1] = <<OkResponse>>
    /\ buffer[1] = ReqLine("set", KPsmon, VStr)
    /\ EarlyResponse(buffer[1]) = NoResponse
    /\ Cardinality(AllCalls) = 2
    /\ store[KPsmon] = SetVal({BStr("", to_string(from_json(VStr)))})
    /\ Len(channels[KPsmon]) = 1

====
